---- MODULE Spec2Model ----
(***************************************************************************)
(* Model of main.py of transilien_bot: the SIRI stop-monitoring parser     *)
(* (fetch_next_departures), the report renderer (format_departure_info)    *)
(* and the control flow of main().                                         *)
(*                                                                         *)
(* Conventions.                                                            *)
(*  - A JSON object is a function whose DOMAIN is the set of keys that are *)
(*    present; dict.get(k, d) is Get(d, k, default).  A JSON array is a    *)
(*    sequence.  {} and "" are both the empty function << >>.              *)
(*  - Text that the code inspects character by character (status flags,    *)
(*    vehicle journey names, HH:MM display times) is a sequence of Unicode *)
(*    code points; text that is only compared for equality or copied       *)
(*    (destination, origin, status label) is a TLA+ string.                *)
(*  - A function of the code that can raise returns a record whose field   *)
(*    exc names the exception ("" when it returns normally).               *)
(***************************************************************************)
EXTENDS Integers, Sequences, FiniteSets, TLC

VARIABLES
    pc,               \* position of main(): "start", "fetch", "present", "filter", "done", "crashed"; "parse" in SpecParse
    env,              \* process environment read by getenv
    tzBound,          \* whether the module global PARIS_TZ is bound when parse_time runs
    response,         \* outcome of requests.get: [kind, data]
    next_departures,  \* list returned by fetch_next_departures
    sorted_trains,    \* main(): sorted(next_departures, key=expected_departure_time)
    filtered_trains,  \* main(): departures to "Paris Saint-Lazare"
    console,          \* sequence of console.print calls
    raised,           \* exception that escaped ("" when none)
    httpCalls,        \* number of requests.get calls issued
    slackCalls,       \* number of chat_postMessage calls issued
    envReads          \* names main() has passed to getenv

vars == <<pc, env, tzBound, response, next_departures, sorted_trains,
          filtered_trains, console, raised, httpCalls, slackCalls, envReads>>

(***************************************************************************)
(* Bounds of the model.                                                    *)
(***************************************************************************)
MaxVisits == 3        \* longest MonitoredStopVisit array explored by Spec

(***************************************************************************)
(* Text helpers.                                                           *)
(***************************************************************************)
\* dict.get(k, default)
Get(d, k, default) == IF k \in DOMAIN d THEN d[k] ELSE default

\* str.lower() on a code-point sequence (ASCII letters).
Lower(s) == [i \in DOMAIN s |-> IF s[i] \in 65..90 THEN s[i] + 32 ELSE s[i]]

\* Python's  sub in s  for code-point sequences.
Contains(s, sub) ==
    \E i \in 1..(Len(s) - Len(sub) + 1) : SubSeq(s, i, i + Len(sub) - 1) = sub

\* Lexicographic  a < b  on code-point sequences (Python str comparison).
RECURSIVE StrLess(_, _)
StrLess(a, b) ==
    IF b = << >> THEN FALSE
    ELSE IF a = << >> THEN TRUE
    ELSE IF Head(a) # Head(b) THEN Head(a) < Head(b)
    ELSE StrLess(Tail(a), Tail(b))

\* The literal "cancel" searched at line 71.
CancelWord == <<99, 97, 110, 99, 101, 108>>

\* The placeholder "—" (U+2014) as text the code inspects, and as a label.
DashText == <<8212>>
DashLabel == "<U+2014>"

\* int(x / 60): division truncating toward zero.
TruncDiv(a, b) == IF a >= 0 THEN a \div b ELSE -((-a) \div b)

\* The decimal value of a digit string; pydantic's str -> int coercion.
IsDigits(s) == Len(s) > 0 /\ \A i \in DOMAIN s : s[i] \in 48..57
RECURSIVE IntOfDigits(_)
IntOfDigits(s) ==
    IF s = << >> THEN 0
    ELSE 10 * IntOfDigits(SubSeq(s, 1, Len(s) - 1)) + (s[Len(s)] - 48)

(***************************************************************************)
(* Time Normalizer: parse_time, format_time, minutes_delay (lines 47-59).  *)
(* An upstream timestamp is [kind, h, m, s, zone]: kind "iso" is a string  *)
(* datetime.fromisoformat accepts, "bad" a non-empty string it rejects,    *)
(* "empty" the string "", "None" the value of call.get on an absent key.   *)
(***************************************************************************)
TsNone == [kind |-> "None", h |-> 0, m |-> 0, s |-> 0, zone |-> "Z"]

\* Offset PARIS_TZ gives the instants of the model (Europe/Paris in January).
ParisUtcOffset == 3600

\* ts.replace("Z", "+00:00"), then the offset fromisoformat reads.
ZoneSeconds(zone) ==
    LET z == IF zone = "Z" THEN "+00:00" ELSE zone
    IN  CASE z = "+00:00" -> 0
          [] z = "+01:00" -> 3600
          [] z = "+02:00" -> 7200

NoInstant == [exc |-> "", none |-> TRUE, utc |-> 0, off |-> 0]

parse_time(ts, tz) ==
    IF ts.kind \in {"None", "empty"} THEN NoInstant
    ELSE IF ts.kind = "bad" THEN [NoInstant EXCEPT !.exc = "ValueError"]
    ELSE IF ~tz THEN [NoInstant EXCEPT !.exc = "NameError"]
    ELSE [exc |-> "", none |-> FALSE,
          utc |-> ts.h * 3600 + ts.m * 60 + ts.s - ZoneSeconds(ts.zone),
          off |-> ParisUtcOffset]

\* Two decimal digits of n as code points.
TwoDigits(n) == <<48 + (n \div 10), 48 + (n % 10)>>

format_time(dt) ==
    IF dt.none THEN DashText
    ELSE LET local == dt.utc + dt.off
         IN  TwoDigits((local \div 3600) % 24) \o <<58>> \o TwoDigits((local \div 60) % 60)

minutes_delay(aimed, expected) ==
    IF aimed.none \/ expected.none THEN 0
    ELSE TruncDiv(expected.utc - aimed.utc, 60)

(***************************************************************************)
(* Departure Parser: the body of fetch_next_departures after the HTTP      *)
(* call (lines 39-86).                                                     *)
(***************************************************************************)
NoDeparture ==
    [origin |-> DashLabel, destination |-> DashLabel,
     aimed_departure_time |-> DashText, expected_departure_time |-> DashText,
     status |-> "", train_number |-> 0, delay |-> 0]

\* Line 71: cancelled = "cancel" in status_dep or "cancel" in status_arr
IsCancelled(call) ==
    LET status_dep == Lower(Get(call, "DepartureStatus", << >>))
        status_arr == Lower(Get(call, "ArrivalStatus", << >>))
    IN  Contains(status_dep, CancelWord) \/ Contains(status_arr, CancelWord)

\* Variant of StatusOf that tests the delay before the cancellation flag.
StatusOfDelayFirst(cancelled, delay) ==
    IF delay > 0 THEN "Delayed" ELSE IF cancelled THEN "Cancelled" ELSE "On time"

\* Line 81: the conditional expression that labels a departure.
StatusOf(cancelled, delay) ==
    IF cancelled THEN "Cancelled" ELSE IF delay = 0 THEN "On time" ELSE "Delayed"

\* Departure(...): pydantic validation of the constructor arguments; only
\* train_number (declared int, given a str) can fail or be converted.
Departure(origin, destination, aimed, expected, status, train_number, delay) ==
    IF ~IsDigits(train_number)
    THEN [exc |-> "ValidationError", dep |-> NoDeparture]
    ELSE [exc |-> "",
          dep |-> [origin |-> origin, destination |-> destination,
                   aimed_departure_time |-> aimed,
                   expected_departure_time |-> expected,
                   status |-> status,
                   train_number |-> IntOfDigits(train_number),
                   delay |-> delay]]

\* One iteration of the loop at lines 61-85, in the code's evaluation order.
ParseVisit(visit, tz) ==
    LET mvj == Get(visit, "MonitoredVehicleJourney", << >>)
        call == Get(mvj, "MonitoredCall", << >>)
        aimed_dep == parse_time(Get(call, "AimedDepartureTime", TsNone), tz)
        expected_dep == parse_time(Get(call, "ExpectedDepartureTime", TsNone), tz)
        cancelled == IsCancelled(call)
        delay == minutes_delay(aimed_dep, expected_dep)
        dests == Get(mvj, "DestinationName", << << >> >>)
        names == Get(mvj, "VehicleJourneyName", << << >> >>)
    IN  IF aimed_dep.exc # "" THEN [exc |-> aimed_dep.exc, dep |-> NoDeparture]
        ELSE IF expected_dep.exc # "" THEN [exc |-> expected_dep.exc, dep |-> NoDeparture]
        ELSE IF Len(dests) = 0 \/ Len(names) = 0
             THEN [exc |-> "IndexError", dep |-> NoDeparture]
        ELSE Departure(Get(Get(mvj, "DirectionRef", << >>), "value", DashLabel),
                       Get(dests[1], "value", DashLabel),
                       format_time(aimed_dep),
                       format_time(expected_dep),
                       StatusOf(cancelled, delay),
                       Get(names[1], "value", DashText),
                       delay)

\* The loop of lines 61-85: the first exception aborts the whole parse.
RECURSIVE ParseVisits(_, _, _)
ParseVisits(visits, tz, acc) ==
    IF visits = << >> THEN [exc |-> "", departures |-> acc]
    ELSE LET r == ParseVisit(Head(visits), tz)
         IN  IF r.exc # "" THEN [exc |-> r.exc, departures |-> << >>]
             ELSE ParseVisits(Tail(visits), tz, Append(acc, r.dep))

\* Lines 40-45: the chain of .get calls that finds the visit records.
StopMonitoringDelivery(data) ==
    Get(Get(Get(data, "Siri", << >>), "ServiceDelivery", << >>),
        "StopMonitoringDelivery", << << >> >>)

VisitsOf(data) == Get(StopMonitoringDelivery(data)[1], "MonitoredStopVisit", << >>)

\* Lines 39-86.
ParseDocument(data, tz) ==
    IF Len(StopMonitoringDelivery(data)) = 0
    THEN [exc |-> "IndexError", departures |-> << >>]
    ELSE ParseVisits(VisitsOf(data), tz, << >>)

(***************************************************************************)
(* Departure Presenter: sorted(..., key=expected_departure_time) at line   *)
(* 120, the list comprehension at lines 127-128, format_departure_info.    *)
(***************************************************************************)
\* Variant of InsertByExpected that puts d in front of the elements with an
\* equal key (an unstable insertion).
RECURSIVE InsertBeforeEqual(_, _)
InsertBeforeEqual(d, s) ==
    IF s = << >> THEN <<d>>
    ELSE IF ~StrLess(Head(s).expected_departure_time, d.expected_departure_time)
         THEN <<d>> \o s
         ELSE <<Head(s)>> \o InsertBeforeEqual(d, Tail(s))

\* Insertion of d behind every element whose key is not greater: the step of
\* the stable (binary insertion) sort CPython runs on short lists.
RECURSIVE InsertByExpected(_, _)
InsertByExpected(d, s) ==
    IF s = << >> THEN <<d>>
    ELSE IF StrLess(d.expected_departure_time, Head(s).expected_departure_time)
         THEN <<d>> \o s
         ELSE <<Head(s)>> \o InsertByExpected(d, Tail(s))

RECURSIVE SortByExpected(_)
SortByExpected(xs) ==
    IF xs = << >> THEN << >>
    ELSE InsertByExpected(xs[Len(xs)], SortByExpected(SubSeq(xs, 1, Len(xs) - 1)))

\* Line 126.
specific_destination == "Paris Saint-Lazare"

\* Variant of KeepDeparture that ignores the case of the destination.
KeepIgnoringCase(departure) ==
    departure.destination \in {specific_destination, "paris saint-lazare"}

\* Lines 127-128.
KeepDeparture(departure) == departure.destination = specific_destination

FilterByDestination(trains) == SelectSeq(trains, KeepDeparture)

\* Lines 89-93: emoji_status.get(status, '').  The glyphs are named by their
\* code points.
EmojiStatus(status) ==
    CASE status = "On time" -> "<U+2705>"
      [] status = "Cancelled" -> "<U+274C>"
      [] status = "Delayed" -> "<U+23F0>"
      [] OTHER -> ""

\* Variant of FormatLine that chooses the two-time form by the status label.
FormatLineByStatus(dep) ==
    <<EmojiStatus(dep.status), " Train ", dep.train_number, " to ", dep.destination, " | ">>
    \o (IF dep.status = "Delayed"
        THEN <<dep.aimed_departure_time, " <U+2192> ", dep.expected_departure_time,
               " (+", dep.delay, " min)">>
        ELSE <<dep.aimed_departure_time, " ">>)

\* Lines 98-100: one line of the report, as the sequence of the pieces the
\* two f-strings concatenate.
FormatLine(dep) ==
    <<EmojiStatus(dep.status), " Train ", dep.train_number, " to ", dep.destination, " | ">>
    \o (IF dep.delay > 0
        THEN <<dep.aimed_departure_time, " <U+2192> ", dep.expected_departure_time,
               " (+", dep.delay, " min)">>
        ELSE <<dep.aimed_departure_time, " ">>)

\* Lines 96-103: the lines that "\n".join assembles, in order.
format_departure_info(departures) == [i \in DOMAIN departures |-> FormatLine(departures[i])]

(***************************************************************************)
(* Inputs: the environment, the outcomes of the HTTP call and the upstream *)
(* documents.  A document is built from a record of choices, one choice    *)
(* per optional field ("absent" leaves the key out).                       *)
(***************************************************************************)
Field(k, present, v) == IF present THEN k :> v ELSE << >>

OnTimeFlag == <<111, 110, 84, 105, 109, 101>>               \* "onTime"
ArrivedFlag == <<97, 114, 114, 105, 118, 101, 100>>         \* "arrived"
CancelledUpper == <<67, 65, 78, 67, 69, 76, 76, 69, 68>>    \* "CANCELLED"
CancelledMixed == <<67, 97, 110, 99, 101, 108, 108, 101, 100>>  \* "Cancelled"
TrainDigits == <<49, 51, 52, 54, 50, 54>>                   \* "134626"
TrainLetters == <<80, 79, 82, 79>>                          \* "PORO"

FlagOf(c) ==
    CASE c = "onTime" -> OnTimeFlag
      [] c = "arrived" -> ArrivedFlag
      [] c = "CANCELLED" -> CancelledUpper
      [] c = "Cancelled" -> CancelledMixed
      [] OTHER -> << >>

TsOf(c) ==
    CASE c = "08:00:00Z" -> [kind |-> "iso", h |-> 8, m |-> 0, s |-> 0, zone |-> "Z"]
      [] c = "09:00:00+01:00" -> [kind |-> "iso", h |-> 9, m |-> 0, s |-> 0, zone |-> "+01:00"]
      [] c = "08:05:00Z" -> [kind |-> "iso", h |-> 8, m |-> 5, s |-> 0, zone |-> "Z"]
      [] c = "07:58:30Z" -> [kind |-> "iso", h |-> 7, m |-> 58, s |-> 30, zone |-> "Z"]
      [] c = "23:30:00Z" -> [kind |-> "iso", h |-> 23, m |-> 30, s |-> 0, zone |-> "Z"]
      [] c = "bad" -> [TsNone EXCEPT !.kind = "bad"]
      [] OTHER -> [TsNone EXCEPT !.kind = "empty"]

ValueListOf(c, v) ==
    CASE c = "emptylist" -> << >>
      [] c = "novalue" -> << << >> >>
      [] OTHER -> << [value |-> v] >>

DestOf(c) ==
    ValueListOf(c, CASE c = "PSL" -> specific_destination
                     [] c = "psl" -> "paris saint-lazare"
                     [] OTHER -> "Versailles Rive Droite")

NameOf(c) == ValueListOf(c, IF c = "digits" THEN TrainDigits ELSE TrainLetters)

DirOf(c) == IF c = "novalue" THEN << >> ELSE [value |-> "STIF:Line::C01740:"]

MkCall(c) ==
    Field("AimedDepartureTime", c.aimed # "absent", TsOf(c.aimed))
    @@ Field("ExpectedDepartureTime", c.expected # "absent", TsOf(c.expected))
    @@ Field("DepartureStatus", c.ds # "absent", FlagOf(c.ds))
    @@ Field("ArrivalStatus", c.as # "absent", FlagOf(c.as))

MkJourney(c) ==
    Field("DirectionRef", c.dir # "absent", DirOf(c.dir))
    @@ Field("DestinationName", c.dest # "absent", DestOf(c.dest))
    @@ Field("VehicleJourneyName", c.vjn # "absent", NameOf(c.vjn))
    @@ Field("MonitoredCall", DOMAIN MkCall(c) # {}, MkCall(c))

MkVisit(c) == Field("MonitoredVehicleJourney", DOMAIN MkJourney(c) # {}, MkJourney(c))

MkDoc(visits) ==
    [Siri |-> [ServiceDelivery |->
        [StopMonitoringDelivery |-> << [MonitoredStopVisit |-> visits] >>]]]

\* Documents that lack one level of the wrapper.
ShapeDoc(c) ==
    CASE c = "empty" -> << >>
      [] c = "siri" -> [Siri |-> << >>]
      [] c = "delivery" -> [Siri |-> [ServiceDelivery |-> << >>]]
      [] c = "nolist" -> [Siri |-> [ServiceDelivery |-> [StopMonitoringDelivery |-> << >>]]]
      [] c = "novisits" -> [Siri |-> [ServiceDelivery |-> [StopMonitoringDelivery |-> << << >> >>]]]

ShapeChoices == {"empty", "siri", "delivery", "nolist", "novisits"}

TsChoices == {"absent", "empty", "bad", "08:00:00Z", "09:00:00+01:00",
              "08:05:00Z", "07:58:30Z", "23:30:00Z"}

\* Every combination of the optional fields of one visit record.
VisitChoices ==
    [dir : {"absent", "novalue", "value"},
     dest : {"absent", "emptylist", "novalue", "PSL", "other"},
     vjn : {"absent", "emptylist", "novalue", "digits", "letters"},
     aimed : TsChoices, expected : TsChoices,
     ds : {"absent", "onTime", "CANCELLED"},
     as : {"absent", "arrived", "Cancelled"}]

\* The well-formed visit records main() is run on.
MainChoices ==
    [dir : {"value"}, dest : {"PSL", "psl"}, vjn : {"digits"},
     aimed : {"08:00:00Z"},
     expected : {"absent", "09:00:00+01:00", "08:05:00Z", "07:58:30Z"},
     ds : {"absent", "CANCELLED"}, as : {"absent"}]

MainVisitLists == UNION {[1..n -> MainChoices] : n \in 0..MaxVisits}

OkResponse(data) == [kind |-> "ok", data |-> data]
FailedResponse(kind) == [kind |-> kind, data |-> << >>]

FailureKinds == {"http_error", "connection_error", "invalid_json"}

EnvChoices == [key : {"absent", "empty", "set"}, slack : {"absent", "set"}]

MkEnv(c) ==
    Field("IDF_API_KEY", c.key # "absent", IF c.key = "empty" THEN "" ELSE "prim-key")
    @@ Field("SLACK_BOT_TOKEN", c.slack # "absent", "xoxb-token")
    @@ Field("CHANNEL_ID", c.slack # "absent", "C0123456")

(***************************************************************************)
(* fetch_next_departures as a whole (lines 24-86) and main() (106-134).    *)
(***************************************************************************)
\* os.getenv(name): None when the name is not set.
getenv(e, name) == [none |-> name \notin DOMAIN e, s |-> Get(e, name, "")]

\* Variant of KeyMissing that only rejects an unset name (api_key is None).
KeyIsNone(api_key) == api_key.none

\* Line 108: not api_key.
KeyMissing(api_key) == api_key.none \/ api_key.s = ""

\* Lines 35-37 raise on a failed exchange; otherwise the document is parsed.
fetch_next_departures(r, tz) ==
    CASE r.kind = "connection_error" -> [exc |-> "ConnectionError", departures |-> << >>]
      [] r.kind = "http_error" -> [exc |-> "HTTPError", departures |-> << >>]
      [] r.kind = "invalid_json" -> [exc |-> "JSONDecodeError", departures |-> << >>]
      [] OTHER -> ParseDocument(r.data, tz)

\* Line 115: except requests.HTTPError.
CaughtByMain(exc) == exc = "HTTPError"

\* Variant of AfterReport without the return of line 134: lines 136-163 run.
NotifierReached(e) ==
    LET slack_token == [none |-> "SLACK_BOT_TOKEN" \notin DOMAIN e, s |-> Get(e, "SLACK_BOT_TOKEN", "")]
        channel_id == [none |-> "CHANNEL_ID" \notin DOMAIN e, s |-> Get(e, "CHANNEL_ID", "")]
        failed(v, text) ==
            [reads |-> {"SLACK_BOT_TOKEN", "CHANNEL_ID"},
             prints |-> << [kind |-> "error", text |-> text, lines |-> << >>, n |-> 0] >>,
             posts |-> 0]
    IN  IF slack_token.none \/ slack_token.s = ""
        THEN failed(slack_token, "Error: SLACK_BOT_TOKEN not found in environment variables.")
        ELSE IF channel_id.none \/ channel_id.s = ""
        THEN failed(channel_id, "Error: CHANNEL_ID not found in environment variables.")
        ELSE [reads |-> {"SLACK_BOT_TOKEN", "CHANNEL_ID"}, prints |-> << >>, posts |-> 1]

\* Line 134: main() returns here, so lines 136-163 (the Slack notifier) add
\* no getenv call, no console output and no chat_postMessage call.
AfterReport(e) == [reads |-> {}, prints |-> << >>, posts |-> 0]

Printed(kind, text, lines, n) == [kind |-> kind, text |-> text, lines |-> lines, n |-> n]

KeyErrorText == "Error: IDF_API_KEY not found in environment variables."
HttpErrorText == "HTTP Error: "
CountText == "Number of Trains to Paris Saint-Lazare:"

\* Lines 107-110.
main_getenv ==
    /\ pc = "start"
    /\ envReads' = envReads \cup {"IDF_API_KEY"}
    /\ IF KeyMissing(getenv(env, "IDF_API_KEY"))
       THEN /\ console' = Append(console, Printed("error", KeyErrorText, << >>, 0))
            /\ pc' = "done"
       ELSE /\ console' = console
            /\ pc' = "fetch"
    /\ UNCHANGED <<env, tzBound, response, next_departures, sorted_trains,
                   filtered_trains, raised, httpCalls, slackCalls>>

\* Lines 112-117: the call of fetch_next_departures inside try/except.
main_fetch ==
    /\ pc = "fetch"
    /\ \E r \in {FailedResponse(k) : k \in FailureKinds}
              \cup {OkResponse(ShapeDoc(c)) : c \in ShapeChoices}
              \cup {OkResponse(MkDoc([i \in DOMAIN cs |-> MkVisit(cs[i])])) : cs \in MainVisitLists} :
         LET result == fetch_next_departures(r, tzBound)
         IN  /\ response' = r
             /\ httpCalls' = httpCalls + 1
             /\ IF result.exc = ""
                THEN /\ next_departures' = result.departures
                     /\ pc' = "present"
                     /\ UNCHANGED <<console, raised>>
                ELSE IF CaughtByMain(result.exc)
                THEN /\ console' = Append(console, Printed("error", HttpErrorText, << >>, 0))
                     /\ pc' = "done"
                     /\ UNCHANGED <<next_departures, raised>>
                ELSE /\ raised' = result.exc
                     /\ pc' = "crashed"
                     /\ UNCHANGED <<next_departures, console>>
    /\ UNCHANGED <<env, tzBound, sorted_trains, filtered_trains, slackCalls, envReads>>

\* Lines 119-123.
main_present ==
    /\ pc = "present"
    /\ sorted_trains' = SortByExpected(next_departures)
    /\ console' = Append(console, Printed("report", "", format_departure_info(sorted_trains'), 0))
    /\ pc' = "filter"
    /\ UNCHANGED <<env, tzBound, response, next_departures, filtered_trains,
                   raised, httpCalls, slackCalls, envReads>>

\* Lines 125-134.
main_filter ==
    /\ pc = "filter"
    /\ filtered_trains' = FilterByDestination(sorted_trains)
    /\ console' = console
                  \o << Printed("count", CountText, << >>, Len(filtered_trains')),
                        Printed("report", "", format_departure_info(filtered_trains'), 0) >>
                  \o AfterReport(env).prints
    /\ envReads' = envReads \cup AfterReport(env).reads
    /\ slackCalls' = slackCalls + AfterReport(env).posts
    /\ pc' = "done"
    /\ UNCHANGED <<env, tzBound, response, next_departures, sorted_trains,
                   raised, httpCalls>>

\* The name PARIS_TZ read at line 51 is bound nowhere in main.py: run as a
\* script, parse_time raises NameError on every non-empty timestamp; run by a
\* host that binds the module global, it converts to that zone.  Both
\* outcomes are explored.
Init ==
    /\ pc = "start"
    /\ \E c \in EnvChoices : env = MkEnv(c)
    /\ tzBound \in BOOLEAN
    /\ response = FailedResponse("none")
    /\ next_departures = << >>
    /\ sorted_trains = << >>
    /\ filtered_trains = << >>
    /\ console = << >>
    /\ raised = ""
    /\ httpCalls = 0
    /\ slackCalls = 0
    /\ envReads = {}

Next == main_getenv \/ main_fetch \/ main_present \/ main_filter

Spec == Init /\ [][Next]_vars

(***************************************************************************)
(* The parser alone, applied to every combination of optional fields of a  *)
(* single visit record, to the documents with a missing wrapper level and  *)
(* to the lists of well-formed records.                                    *)
(***************************************************************************)
InitParse ==
    /\ pc = "parse"
    /\ env = MkEnv([key |-> "set", slack |-> "absent"])
    /\ tzBound \in BOOLEAN
    /\ \/ \E c \in VisitChoices : response = OkResponse(MkDoc(<<MkVisit(c)>>))
       \/ \E c \in ShapeChoices : response = OkResponse(ShapeDoc(c))
       \/ \E cs \in MainVisitLists :
              response = OkResponse(MkDoc([i \in DOMAIN cs |-> MkVisit(cs[i])]))
    /\ next_departures = << >>
    /\ sorted_trains = << >>
    /\ filtered_trains = << >>
    /\ console = << >>
    /\ raised = ""
    /\ httpCalls = 0
    /\ slackCalls = 0
    /\ envReads = {}

\* Lines 39-86 applied to the document.
parse_document ==
    /\ pc = "parse"
    /\ LET result == ParseDocument(response.data, tzBound)
       IN  /\ next_departures' = result.departures
           /\ raised' = result.exc
           /\ pc' = IF result.exc = "" THEN "parsed" ELSE "crashed"
    /\ UNCHANGED <<env, tzBound, response, sorted_trains, filtered_trains,
                   console, httpCalls, slackCalls, envReads>>

NextParse == parse_document

SpecParse == InitParse /\ [][NextParse]_vars

(***************************************************************************)
(* Vocabulary of the properties: what a visit record says, read directly   *)
(* from the document.                                                      *)
(***************************************************************************)
CallOf(visit) == Get(Get(visit, "MonitoredVehicleJourney", << >>), "MonitoredCall", << >>)

\* The record carries a status flag whose lowercase text contains "cancel".
Flagged(visit) ==
    \E k \in {"DepartureStatus", "ArrivalStatus"} :
        /\ k \in DOMAIN CallOf(visit)
        /\ Contains(Lower(CallOf(visit)[k]), CancelWord)

\* The timestamp under key k is present and non-empty.
HasInstant(visit, k) == k \in DOMAIN CallOf(visit) /\ CallOf(visit)[k].kind = "iso"

\* Seconds since midnight UTC of the timestamp under key k.
InstantOf(visit, k) ==
    LET ts == CallOf(visit)[k]
    IN  ts.h * 3600 + ts.m * 60 + ts.s
        - (CASE ts.zone = "+01:00" -> 3600 [] ts.zone = "+02:00" -> 7200 [] OTHER -> 0)

\* max(0, whole minutes of expected - aimed), 0 when an instant is missing.
ClampedDelay(visit) ==
    IF HasInstant(visit, "AimedDepartureTime") /\ HasInstant(visit, "ExpectedDepartureTime")
    THEN LET d == InstantOf(visit, "ExpectedDepartureTime") - InstantOf(visit, "AimedDepartureTime")
         IN  IF d > 0 THEN d \div 60 ELSE 0
    ELSE 0

\* The visit records of the document that was parsed without an exception.
ParsedVisits == VisitsOf(response.data)

VisitCount(data) ==
    IF Len(StopMonitoringDelivery(data)) = 0 THEN 0 ELSE Len(VisitsOf(data))

HasUnparsableTimestamp(data) ==
    /\ Len(StopMonitoringDelivery(data)) > 0
    /\ \E i \in DOMAIN VisitsOf(data) :
         \E k \in {"AimedDepartureTime", "ExpectedDepartureTime"} :
             k \in DOMAIN CallOf(VisitsOf(data)[i]) /\ CallOf(VisitsOf(data)[i])[k].kind = "bad"

(***************************************************************************)
(* Properties of the parser (SpecParse).                                   *)
(***************************************************************************)
\* C1: every Departure built from a visit record one of whose status flags
\* contains "cancel" (case-insensitively) has status Cancelled, whatever its
\* timestamps and delay.
C1_CancelledOverrides ==
    pc = "parsed" =>
        \A i \in DOMAIN next_departures :
            Flagged(ParsedVisits[i]) => next_departures[i].status = "Cancelled"

\* C1 witness: a flagged record with a positive delay was parsed and labelled
\* Cancelled.
C1_Witness ==
    /\ pc = "parsed"
    /\ \E i \in DOMAIN next_departures :
           /\ Flagged(ParsedVisits[i])
           /\ next_departures[i].delay > 0
           /\ next_departures[i].status = "Cancelled"

\* C2: every Departure has delay = max(0, whole minutes of expected - aimed)
\* when both instants are present and delay = 0 otherwise; never negative.
C2_DelayNonNegative ==
    pc = "parsed" =>
        \A i \in DOMAIN next_departures :
            /\ next_departures[i].delay >= 0
            /\ next_departures[i].delay = ClampedDelay(ParsedVisits[i])

\* C3: status is On time iff not cancelled and delay = 0, Delayed iff not
\* cancelled and delay > 0, and always one of the three labels.
C3_StatusMatchesDelay ==
    pc = "parsed" =>
        \A i \in DOMAIN next_departures :
            LET dep == next_departures[i]
                cancelled == Flagged(ParsedVisits[i])
            IN  /\ dep.status \in {"On time", "Delayed", "Cancelled"}
                /\ dep.status = "On time" <=> (~cancelled /\ dep.delay = 0)
                /\ dep.status = "Delayed" <=> (~cancelled /\ dep.delay > 0)

\* C4: parsing raises only on a non-empty unparsable timestamp; otherwise it
\* yields one Departure per visit record (none for the document {}).
C4_ParsingTotal ==
    pc # "parse" =>
        /\ raised # "" => HasUnparsableTimestamp(response.data)
        /\ raised = "" => Len(next_departures) = VisitCount(response.data)

(***************************************************************************)
(* Properties of main() (Spec).                                            *)
(***************************************************************************)
ReportPrinted == \E i \in DOMAIN console : console[i].kind \in {"report", "count"}

ErrorPrinted == \E i \in DOMAIN console : console[i].kind = "error"

KeyAbsentOrEmpty == "IDF_API_KEY" \notin DOMAIN env \/ env["IDF_API_KEY"] = ""

\* C5: a failed fetch (non-2xx status or network failure) ends the run with
\* an error message, one request, no report and no escaping exception.
C5_TransportFailureReported ==
    response.kind \in {"http_error", "connection_error"} =>
        /\ raised = ""
        /\ pc = "done"
        /\ ErrorPrinted
        /\ ~ReportPrinted
        /\ httpCalls = 1

\* C6: with the API key absent or empty no request is ever issued and no
\* report printed, and the run ends on the error message; a request is only
\* issued after the key was read and found non-empty.
C6_NoFetchWithoutKey ==
    /\ KeyAbsentOrEmpty =>
          /\ httpCalls = 0
          /\ ~ReportPrinted
          /\ pc \in {"start", "done"}
          /\ pc = "done" => console = << Printed("error", KeyErrorText, << >>, 0) >>
    /\ httpCalls > 0 => ~KeyAbsentOrEmpty /\ "IDF_API_KEY" \in envReads

\* C6 witness: a run with an empty key has ended on the error message.
C6_Witness ==
    /\ "IDF_API_KEY" \in DOMAIN env
    /\ env["IDF_API_KEY"] = ""
    /\ pc = "done"
    /\ ErrorPrinted
    /\ httpCalls = 0

\* The reports on the console, each with the list it was rendered from.
Rendered ==
    (IF Len(console) >= 1 /\ console[1].kind = "report"
     THEN {<<console[1].lines, sorted_trains>>} ELSE {})
    \cup (IF Len(console) >= 3 /\ console[3].kind = "report"
          THEN {<<console[3].lines, filtered_trains>>} ELSE {})

TwoTimes(line, dep) ==
    /\ Len(line) = 12
    /\ SubSeq(line, 7, 12) = <<dep.aimed_departure_time, " <U+2192> ",
                               dep.expected_departure_time, " (+", dep.delay, " min)">>

SingleTime(line, dep) ==
    /\ Len(line) = 8
    /\ line[7] = dep.aimed_departure_time
    /\ line[8] = " "

GlyphOf(status) ==
    IF status = "On time" THEN "<U+2705>"
    ELSE IF status = "Cancelled" THEN "<U+274C>"
    ELSE IF status = "Delayed" THEN "<U+23F0>" ELSE ""

CarriesIdentity(line, dep) ==
    /\ Len(line) >= 6
    /\ line[1] = GlyphOf(dep.status) /\ line[1] # ""
    /\ line[3] = dep.train_number
    /\ line[5] = dep.destination

\* C7 as stated: the two-time form exactly when delay > 0, a single time
\* otherwise, and on-time and cancelled departures always with a single time.
C7_AsStated ==
    \A r \in Rendered :
        /\ Len(r[1]) = Len(r[2])
        /\ \A i \in DOMAIN r[2] :
               /\ CarriesIdentity(r[1][i], r[2][i])
               /\ IF r[2][i].delay > 0 THEN TwoTimes(r[1][i], r[2][i])
                                       ELSE SingleTime(r[1][i], r[2][i])
               /\ r[2][i].status \in {"On time", "Cancelled"} => SingleTime(r[1][i], r[2][i])

\* C7 (amended): the two-time form exactly when delay > 0, whatever the
\* status, and a single time otherwise; every line carries the status glyph,
\* the train identifier and the destination.
C7_TwoTimesIffDelayed ==
    \A r \in Rendered :
        /\ Len(r[1]) = Len(r[2])
        /\ \A i \in DOMAIN r[2] :
               /\ CarriesIdentity(r[1][i], r[2][i])
               /\ IF r[2][i].delay > 0 THEN TwoTimes(r[1][i], r[2][i])
                                       ELSE SingleTime(r[1][i], r[2][i])

\* C7 witness: one report shows a cancelled departure with a positive delay
\* in the two-time form and a departure without delay with a single time.
C7_Witness ==
    \E r \in Rendered :
        /\ \E i \in DOMAIN r[2] :
               r[2][i].status = "Cancelled" /\ r[2][i].delay > 0 /\ TwoTimes(r[1][i], r[2][i])
        /\ \E i \in DOMAIN r[2] :
               r[2][i].delay <= 0 /\ SingleTime(r[1][i], r[2][i])

\* Index in xs of the k-th element with the wanted destination.
KthMatch(xs, k) ==
    CHOOSE i \in DOMAIN xs :
        /\ xs[i].destination = "Paris Saint-Lazare"
        /\ Cardinality({j \in 1..i : xs[j].destination = "Paris Saint-Lazare"}) = k

FilterDone == pc = "done" /\ Len(console) = 3

\* C8: the filtered list is exactly the records of the sorted list whose
\* destination is "Paris Saint-Lazare", in the same order, and the count
\* printed is the length of the list rendered after it.
C8_FilterExact ==
    FilterDone =>
        /\ Len(filtered_trains)
             = Cardinality({j \in DOMAIN sorted_trains :
                               sorted_trains[j].destination = "Paris Saint-Lazare"})
        /\ \A k \in DOMAIN filtered_trains :
               filtered_trains[k] = sorted_trains[KthMatch(sorted_trains, k)]
        /\ console[2].kind = "count"
        /\ console[2].n = Len(filtered_trains)
        /\ console[2].n = Len(console[3].lines)

\* C8 witness: a run kept two different records and dropped the one between
\* them, whose destination differs only by case.
C8_Witness ==
    /\ FilterDone
    /\ Len(sorted_trains) = 3
    /\ Len(filtered_trains) = 2
    /\ filtered_trains[1] # filtered_trains[2]
    /\ sorted_trains[2].destination = "paris saint-lazare"

Occurrences(xs, x) == Cardinality({i \in DOMAIN xs : xs[i] = x})

SameKey(xs, key) ==
    LET Has(d) == d.expected_departure_time = key IN SelectSeq(xs, Has)

SortDone == pc = "filter" \/ FilterDone

\* C9: the sorted list is a permutation of the parsed list, ascending by
\* expected_departure_time, with equal keys in their upstream order, and
\* sorting it again changes nothing.
C9_SortStableIdempotent ==
    SortDone =>
        /\ Len(sorted_trains) = Len(next_departures)
        /\ \A i \in DOMAIN next_departures :
               Occurrences(sorted_trains, next_departures[i])
                 = Occurrences(next_departures, next_departures[i])
        /\ \A i, j \in DOMAIN sorted_trains :
               i < j => ~StrLess(sorted_trains[j].expected_departure_time,
                                 sorted_trains[i].expected_departure_time)
        /\ \A i \in DOMAIN next_departures :
               SameKey(sorted_trains, next_departures[i].expected_departure_time)
                 = SameKey(next_departures, next_departures[i].expected_departure_time)
        /\ SortByExpected(sorted_trains) = sorted_trains

\* C9 witness: the sort moved a record forward and kept two different
\* records with the same key in their upstream order.
C9_Witness ==
    /\ SortDone
    /\ sorted_trains # next_departures
    /\ \E i, j \in DOMAIN sorted_trains :
           /\ i < j
           /\ sorted_trains[i].expected_departure_time = sorted_trains[j].expected_departure_time
           /\ sorted_trains[i] # sorted_trains[j]

\* C10: the notifier is never invoked: no chat message is posted, the
\* notifier token and channel are never read, and no notifier error is
\* raised or reported.
C10_NotifierNeverInvoked ==
    /\ slackCalls = 0
    /\ envReads \subseteq {"IDF_API_KEY"}
    /\ raised # "SlackApiError"
    /\ \A i \in DOMAIN console :
           console[i].kind = "error" => console[i].text \in {KeyErrorText, HttpErrorText}
    /\ pc = "done" /\ ReportPrinted => Len(console) = 3 /\ console[3].kind = "report"

\* C10 witness: a run with the notifier configured printed the filtered
\* report and ended.
C10_Witness ==
    /\ FilterDone
    /\ "SLACK_BOT_TOKEN" \in DOMAIN env
    /\ "CHANNEL_ID" \in DOMAIN env
    /\ Len(filtered_trains) > 0

====
